---- MODULE Spec2Model ----
(***************************************************************************)
(* A model of the scripts of the repository:                               *)
(*   Callbacks/script.js     the callback script loader func(src, load)    *)
(*   unnamed/part_002        the promise script loader and its retry chain *)
(*   fatch API/script.js     weather(): fetch, then/then/catch, DOM writes *)
(*   classes/constructor.js  Student / CS_Student                          *)
(* Strings that the code builds or converts are sequences of characters;   *)
(* string constants that are only passed around are TLA+ strings.          *)
(***************************************************************************)
EXTENDS Bags, FiniteSets, Integers, Sequences, TLC

VARIABLES
    head,        \* Callbacks: script elements appended to document.head
    loadCalls,   \* Callbacks: the invocations of the load callback, in order
    funcCalls,   \* Callbacks: the src of every call of func, in order
    cbConsole,   \* Callbacks: console.log lines written by success()
    body,        \* part_002: script elements appended to document.body
    prom,        \* part_002: the promises of the chain
    registered,  \* part_002: promises whose reaction has been attached
    jobs,        \* part_002: the microtask queue
    prConsole,   \* part_002: console.log lines of the chain's handlers
    userinput,   \* fatch API: value of the input element userinput
    doc,         \* fatch API: the nodes city, citytemp, wind, des (innerHTML),
                 \*   cantainer (style.display), fetching (style.display and
                 \*   innerHTML) and the console
    reqs,        \* fatch API: the calls of weather(), each with its fetch
    shownCall,   \* fatch API: the call whose response fields the data nodes
                 \*   show (0: none yet)
    student,     \* classes: the fields of the object under test and its class
    out,         \* classes: the console.log lines of the last call
    lastOp,      \* classes: the last call made on the object
    submitted,   \* classes: submit() was called on the object
    cancelled,   \* classes: cancel() was called on the object
    time,        \* part_000: innerHTML of the four nodes of class "time"
    counterI,    \* part_000: the global counter i
    timer,       \* part_000: the interval timer is armed
    sample,      \* part_000: the time sampled by the last tick
    ticks,       \* part_000: the number of ticks so far, modulo TickWrap
    dateNow,     \* BurgerKings: the value of Date.now(), in milliseconds
    advances,    \* BurgerKings: how often the clock has been advanced
    store,       \* BurgerKings: WeatherCache.store, key to entry
    lastSet,     \* BurgerKings: per key, the entry of the latest set(key, ..)
    cacheOp,     \* BurgerKings: the last get or set made on the cache directly
    fetches,     \* BurgerKings: the fetchWithRetry calls made directly, in order
    calls,       \* BurgerKings: the updateWeather calls in flight, a bag
    weatherDisplay,  \* BurgerKings: the content of the .weather-display element
    lastDone,    \* BurgerKings: the updateWeather call that ended last
    lastCity,    \* BurgerKings: the lastCity property of the widget
    getTime,     \* BurgerKings: the value of new Date().getTime()
    throttleDelay, \* BurgerKings: the delay of the throttled wrapper, 0 before throttle()
    lastCall,    \* BurgerKings: lastCall in the closure of the wrapper
    fnCalls,     \* BurgerKings: the invocations of fn, with time and arguments
    returned,     \* BurgerKings: what the latest call of the wrapper returned
    demoTimers,  \* fatch API: the timers of p1, p2, p3 still pending
    demoProm,    \* fatch API: state and value of p1, p2, p3
    all,         \* fatch API: the promise of Promise.all([p1, p2, p3])
    allValues,   \* fatch API: the values Promise.all has collected
    demoJobs,    \* fatch API: the microtask queue of the demo
    demoConsole  \* fatch API: what the demo has logged

loaderVars == <<head, loadCalls, funcCalls, cbConsole, body, prom, registered, jobs, prConsole>>
weatherVars == <<userinput, doc, reqs, shownCall>>
studentVars == <<student, out, lastOp, submitted, cancelled>>
clockVars == <<time, counterI, timer, sample, ticks>>
cacheVars == <<dateNow, advances, store, lastSet, cacheOp>>
fetchVars == <<fetches>>
widgetVars == <<calls, weatherDisplay, lastDone, lastCity>>
throttleVars == <<getTime, throttleDelay, lastCall, fnCalls, returned>>
demoVars == <<demoTimers, demoProm, all, allValues, demoJobs, demoConsole>>
vars == <<loaderVars, weatherVars, studentVars, clockVars, cacheVars, fetchVars, widgetVars, throttleVars, demoVars>>

\* ---------------------------------------------------------------- bounds
MaxCalls == 2      \* calls of the callback loader func(src, load)
MaxWeather == 2    \* calls of weather()
TickWrap == 3      \* the tick counter of the clock wraps here
MaxAdvance == 2    \* steps of the wall clock
MaxFetch == 2      \* direct calls of fetchWithRetry
MaxSearch == 2     \* updateWeather calls in flight together
MaxTime == 9       \* the clock of the throttled wrapper stops here
MaxDemoWeather == 1  \* calls of weather() while the Promise.all demo runs

\* ------------------------------------------------------- Callbacks/script.js
BOOTSTRAP_URL == "https://cdn.jsdelivr.net/npm/bootstrap@5.3.3/dist/js/bootstrap.bundle.min.js"
Srcs == {BOOTSTRAP_URL, "missing.js"}

\* success(error, src): two console lines
success(error, src) ==
    IF error THEN <<"Error", src>> ELSE <<"Script Loaded", src>>

\* load(flag, src) with load = success: the call is recorded, success logs
load_mut_flip(el, flag, src) ==
    /\ loadCalls' = Append(loadCalls, [el |-> el, error |-> ~flag, src |-> src])
    /\ cbConsole' = cbConsole \o success(~flag, src)

load_mut_twice(el, flag, src) ==
    /\ loadCalls' = loadCalls \o << [el |-> el, error |-> flag, src |-> src],
                                    [el |-> el, error |-> flag, src |-> src] >>
    /\ cbConsole' = cbConsole \o success(flag, src) \o success(flag, src)

load(el, flag, src) ==
    /\ loadCalls' = Append(loadCalls, [el |-> el, error |-> flag, src |-> src])
    /\ cbConsole' = cbConsole \o success(flag, src)

\* func(src, load): create the element, set src and the handlers, append it.
\* The element keeps the src of the closure its handlers were created in.
func_mut_dedup(src) ==
    /\ jobs = <<>>
    /\ Len(funcCalls) < MaxCalls
    /\ funcCalls' = Append(funcCalls, src)
    /\ head' = IF \E el \in DOMAIN head : head[el].src = src /\ head[el].st = "pending"
               THEN head
               ELSE Append(head, [src |-> src, closure |-> src, st |-> "pending"])
    /\ UNCHANGED <<loadCalls, cbConsole>>

func(src) ==
    /\ jobs = <<>>
    /\ Len(funcCalls) < MaxCalls
    /\ funcCalls' = Append(funcCalls, src)
    /\ head' = Append(head, [src |-> src, closure |-> src, st |-> "pending"])
    /\ UNCHANGED <<loadCalls, cbConsole>>

\* scrt.onload = function () { load(false, src) }
scrt_onload(el) ==
    /\ jobs = <<>>
    /\ el \in DOMAIN head
    /\ head[el].st = "pending"
    /\ head' = [head EXCEPT ![el].st = "loaded"]
    /\ load(el, FALSE, head[el].closure)
    /\ UNCHANGED funcCalls

\* scrt.onerror = function () { load(true, src) }
scrt_onerror(el) ==
    /\ jobs = <<>>
    /\ el \in DOMAIN head
    /\ head[el].st = "pending"
    /\ head' = [head EXCEPT ![el].st = "failed"]
    /\ load(el, TRUE, head[el].closure)
    /\ UNCHANGED funcCalls

CallbackNext ==
    \/ \E src \in Srcs : func(src)
    \/ \E el \in 1..MaxCalls : scrt_onload(el)
    \/ \E el \in 1..MaxCalls : scrt_onerror(el)

\* the script's top level: func(BOOTSTRAP_URL, success)
CallbackInit ==
    /\ head = << [src |-> BOOTSTRAP_URL, closure |-> BOOTSTRAP_URL, st |-> "pending"] >>
    /\ loadCalls = <<>>
    /\ funcCalls = <<BOOTSTRAP_URL>>
    /\ cbConsole = <<>>

\* ------------------------------------------------------- unnamed/part_002
TAILWIND_URL == "https://cdn.jsdelivr.net/npm/@tailwindcss/browser@4"

\* The promises of the chain, named by the expression that creates them:
\*   f1 = func(URL)            t1 = f1.then(A)      p  = t1.catch(B)
\*   f2 = func(URL) inside B   t2 = f2.then(A2)     c2 = t2.catch(C)
\*   f3 = func(URL) inside C
PIds == {"f1", "t1", "p", "f2", "t2", "c2", "f3"}
NotCreated == [st |-> "none", val |-> "-"]
Pending == [st |-> "pending", val |-> "-"]

\* the promise returned by the k-th call of func
AttemptPromise(k) == CASE k = 1 -> "f1" [] k = 2 -> "f2" [] OTHER -> "f3"

\* the promise a reaction of id settles: then/catch derive a new promise, and a
\* promise returned from a handler is adopted by the promise of that handler
Derived(id) ==
    CASE id = "f1" -> "t1"
      [] id = "t1" -> "p"
      [] id = "f2" -> "t2"
      [] id = "t2" -> "c2"
      [] id = "c2" -> "p"
      [] id = "f3" -> "c2"
      [] OTHER -> "none"

ReactJob(id) == [k |-> "react", src |-> id]
ThenableJob(id) == [k |-> "thenable", src |-> id]

\* settling promise id in the promise map pm: its state and value, and the
\* reaction job it enqueues when a reaction is attached
Settled(pm, id, st, val) == [pm EXCEPT ![id] = [st |-> st, val |-> val]]
JobsOnSettle(reg, id) == IF id \in reg THEN <<ReactJob(id)>> ELSE <<>>

\* new Promise(executor) of func: the executor appends the script element and
\* sets its handlers; the promise comes back pending
funcPromise(k, src) ==
    body' = Append(body, [src |-> src, st |-> "pending", promise |-> AttemptPromise(k)])

\* script.onload = () => { resolve("resolve") }
script_onload(el) ==
    /\ jobs = <<>>
    /\ el \in DOMAIN body
    /\ body[el].st = "pending"
    /\ body' = [body EXCEPT ![el].st = "loaded"]
    /\ prom' = Settled(prom, body[el].promise, "fulfilled", "resolve")
    /\ jobs' = jobs \o JobsOnSettle(registered, body[el].promise)
    /\ UNCHANGED <<registered, prConsole>>

\* script.onerror = () => { reject("Rejected") }
script_onerror(el) ==
    /\ jobs = <<>>
    /\ el \in DOMAIN body
    /\ body[el].st = "pending"
    /\ body' = [body EXCEPT ![el].st = "failed"]
    /\ prom' = Settled(prom, body[el].promise, "rejected", "Rejected")
    /\ jobs' = jobs \o JobsOnSettle(registered, body[el].promise)
    /\ UNCHANGED <<registered, prConsole>>

\* .then((value) => { console.log("this is value of resolve which is  " + value) })
\* on f1 (line 15) and on f2 (line 19): a rejection passes through
thenLog(id) ==
    LET d == Derived(id) IN
    /\ IF prom[id].st = "fulfilled"
       THEN /\ prConsole' = Append(prConsole, <<"this is value of resolve which is  ", prom[id].val>>)
            /\ prom' = Settled(prom, d, "fulfilled", "undefined")
       ELSE /\ prConsole' = prConsole
            /\ prom' = Settled(prom, d, "rejected", prom[id].val)
    /\ jobs' = Tail(jobs) \o JobsOnSettle(registered, d)
    /\ UNCHANGED <<body, registered>>

\* .catch((error) => { console.log(...); return func(URL).then(...).catch(...) })
\* on t1 (lines 17-29): a fulfilment passes through to p; on rejection the second
\* attempt starts and p is resolved with c2, which queues the job adopting it
catchRetry2_mut_always(id) ==
    /\ prConsole' = Append(prConsole, <<"this is value of error which is  ", prom[id].val>>)
    /\ funcPromise(2, TAILWIND_URL)
    /\ prom' = [prom EXCEPT !["f2"] = Pending, !["t2"] = Pending, !["c2"] = Pending]
    /\ registered' = registered \cup {"f2", "t2"}
    /\ jobs' = Append(Tail(jobs), ThenableJob("c2"))

catchRetry2(id) ==
    IF prom[id].st = "fulfilled"
    THEN /\ prom' = Settled(prom, "p", "fulfilled", prom[id].val)
         /\ jobs' = Tail(jobs) \o JobsOnSettle(registered, "p")
         /\ UNCHANGED <<body, registered, prConsole>>
    ELSE /\ prConsole' = Append(prConsole, <<"this is value of error which is  ", prom[id].val>>)
         /\ funcPromise(2, TAILWIND_URL)
         /\ prom' = [prom EXCEPT !["f2"] = Pending, !["t2"] = Pending, !["c2"] = Pending]
         /\ registered' = registered \cup {"f2", "t2"}
         /\ jobs' = Append(Tail(jobs), ThenableJob("c2"))

\* .catch((error) => { console.log(...); return func(URL) }) on t2 (lines 21-26)
catchRetry3_mut_again(id) ==
    IF prom[id].st = "fulfilled"
    THEN /\ prom' = Settled(prom, "c2", "fulfilled", prom[id].val)
         /\ jobs' = Tail(jobs) \o JobsOnSettle(registered, "c2")
         /\ UNCHANGED <<body, registered, prConsole>>
    ELSE /\ prConsole' = Append(prConsole, <<"this is value of error which is  ", prom[id].val>>)
         /\ body' = body \o << [src |-> TAILWIND_URL, st |-> "pending", promise |-> "f3"],
                               [src |-> TAILWIND_URL, st |-> "pending", promise |-> "f3"] >>
         /\ prom' = [prom EXCEPT !["f3"] = Pending]
         /\ registered' = registered
         /\ jobs' = Append(Tail(jobs), ThenableJob("f3"))

catchRetry3(id) ==
    IF prom[id].st = "fulfilled"
    THEN /\ prom' = Settled(prom, "c2", "fulfilled", prom[id].val)
         /\ jobs' = Tail(jobs) \o JobsOnSettle(registered, "c2")
         /\ UNCHANGED <<body, registered, prConsole>>
    ELSE /\ prConsole' = Append(prConsole, <<"this is value of error which is  ", prom[id].val>>)
         /\ funcPromise(3, TAILWIND_URL)
         /\ prom' = [prom EXCEPT !["f3"] = Pending]
         /\ registered' = registered
         /\ jobs' = Append(Tail(jobs), ThenableJob("f3"))

\* a promise resolved with another promise takes that promise's state
adopt_mut_fulfil(id) ==
    LET d == Derived(id) IN
    /\ prom' = Settled(prom, d, "fulfilled", prom[id].val)
    /\ jobs' = Tail(jobs) \o JobsOnSettle(registered, d)
    /\ UNCHANGED <<body, registered, prConsole>>

adopt(id) ==
    LET d == Derived(id) IN
    /\ prom' = Settled(prom, d, prom[id].st, prom[id].val)
    /\ jobs' = Tail(jobs) \o JobsOnSettle(registered, d)
    /\ UNCHANGED <<body, registered, prConsole>>

\* the job that calls then() of the promise a handler returned: its reaction is
\* attached, and runs at once when the promise has settled already
thenableJob(id) ==
    /\ registered' = registered \cup {id}
    /\ jobs' = Tail(jobs) \o (IF prom[id].st \in {"fulfilled", "rejected"}
                              THEN <<ReactJob(id)>> ELSE <<>>)
    /\ UNCHANGED <<body, prom, prConsole>>

\* one microtask: the head of the queue
RunJob ==
    /\ jobs # <<>>
    /\ LET j == Head(jobs) IN
       IF j.k = "thenable" THEN thenableJob(j.src)
       ELSE CASE j.src \in {"f1", "f2"} -> thenLog(j.src)
              [] j.src = "t1" -> catchRetry2(j.src)
              [] j.src = "t2" -> catchRetry3(j.src)
              [] OTHER -> adopt(j.src)

PromiseNext ==
    \/ \E el \in 1..3 : script_onload(el)
    \/ \E el \in 1..3 : script_onerror(el)
    \/ RunJob

\* the script's top level: let p = func(URL).then(...).catch(...)
PromiseInit ==
    /\ body = << [src |-> TAILWIND_URL, st |-> "pending", promise |-> "f1"] >>
    /\ prom = [id \in PIds |-> IF id \in {"f1", "t1", "p"} THEN Pending ELSE NotCreated]
    /\ registered = {"f1", "t1"}
    /\ jobs = <<>>
    /\ prConsole = <<>>

\* ------------------------------------------------------- fatch API/script.js
WEATHER_BASE == "https://goweather.xyz/weather/"

\* JavaScript values of the fields of a response object
Str(s) == [t |-> "string", v |-> s]
Undefined == [t |-> "undefined"]
Null == [t |-> "null"]

\* what the user may type into userinput
Inputs == {"London", "<i>Oslo</i>"}

\* HTTP status codes a response may carry, and Response.ok
Statuses == {200, 300, 404}
ok_mut_below400(status) == status < 400
ok(status) == status >= 200 /\ status <= 299

\* what value.json() comes to: a parsed value, or a SyntaxError
Bodies == {
    [parsed |-> TRUE, value |-> [t |-> "object", temperature |-> Str("+22 C"),
                                wind |-> Str("11 km/h"), description |-> Str("Sunny")]],
    [parsed |-> TRUE, value |-> [t |-> "object", temperature |-> Str("<b>-3 C</b>"),
                                wind |-> Undefined, description |-> Null]],
    [parsed |-> TRUE, value |-> Null],
    [parsed |-> FALSE] }

\* the outcomes of fetch(): a response with a status, or a network failure
Responses ==
    [kind : {"response"}, status : Statuses] \cup {[kind |-> "failure", status |-> 0]}

\* an Error object and String(error)
Error(name, message) == [name |-> name, message |-> message]
ErrorToString(e) == e.name \o ": " \o e.message

\* the string an innerHTML assignment receives: ToString, with null as ""
DOMString(x) ==
    CASE x.t = "string" -> x.v
      [] x.t = "undefined" -> "undefined"
      [] OTHER -> ""

\* weather(), lines 9-13: read the input, start the fetch, show fetching
weather_mut_twice ==
    /\ Len(reqs) < MaxWeather
    /\ reqs' = reqs \o << [url |-> WEATHER_BASE \o userinput, city |-> userinput,
                           st |-> "fetching", status |-> 0, body |-> [parsed |-> FALSE]],
                          [url |-> WEATHER_BASE \o userinput, city |-> userinput,
                           st |-> "fetching", status |-> 0, body |-> [parsed |-> FALSE]] >>
    /\ doc' = [doc EXCEPT !.console = Append(@, Str("Fetching Data...")),
                          !.fetching = "flex",
                          !.cantainer = "none"]
    /\ UNCHANGED <<userinput, shownCall>>

weather ==
    /\ Len(reqs) < MaxWeather
    /\ reqs' = Append(reqs, [url |-> WEATHER_BASE \o userinput, city |-> userinput,
                             st |-> "fetching", status |-> 0,
                             body |-> [parsed |-> FALSE]])
    /\ doc' = [doc EXCEPT !.console = Append(@, Str("Fetching Data...")),
                          !.fetching = "flex",
                          !.cantainer = "none"]
    /\ UNCHANGED <<userinput, shownCall>>

\* the user edits the input element
SetInput(v) ==
    /\ v # userinput
    /\ userinput' = v
    /\ UNCHANGED <<doc, reqs, shownCall>>

\* (value) => { if (!value.ok) throw new Error(...) else return value.json() }
\* lines 14-20: the error thrown on a status that is not ok
notFound(input) == Error("Error", input \o " Not Found :")

\* .then((value) => { ... }) of lines 21-32 on the document d: the document it
\* leaves, and the TypeError of reading a field of null
thenRender_mut_swap(d, input, value) ==
    IF value = Null
    THEN [doc |-> [d EXCEPT !.fetching = "none", !.cantainer = "flex", !.city = input],
          threw |-> TRUE,
          error |-> Error("TypeError", "Cannot read properties of null")]
    ELSE [doc |-> [d EXCEPT !.fetching = "none", !.cantainer = "flex", !.city = input,
                            !.citytemp = DOMString(value.temperature),
                            !.wind = DOMString(value.description),
                            !.des = DOMString(value.wind),
                            !.console = @ \o <<value.temperature, value.wind, value.description>>],
          threw |-> FALSE, error |-> Error("", "")]

thenRender(d, input, value) ==
    IF value = Null
    THEN [doc |-> [d EXCEPT !.fetching = "none", !.cantainer = "flex", !.city = input],
          threw |-> TRUE,
          error |-> Error("TypeError", "Cannot read properties of null")]
    ELSE [doc |-> [d EXCEPT !.fetching = "none", !.cantainer = "flex", !.city = input,
                            !.citytemp = DOMString(value.temperature),
                            !.wind = DOMString(value.wind),
                            !.des = DOMString(value.description),
                            !.console = @ \o <<value.temperature, value.wind, value.description>>],
          threw |-> FALSE, error |-> Error("", "")]

\* .catch((error) => { ... }) of lines 32-40 on the document d
catchError_mut_clear(d, error) ==
    [d EXCEPT !.console = Append(@, Str("Error occure:")),
              !.fetching = "flex",
              !.cantainer = "none",
              !.fetchingHTML = ErrorToString(error),
              !.citytemp = ""]

catchError_mut_keep_container(d, error) ==
    [d EXCEPT !.console = Append(@, Str("Error occure:")),
              !.fetching = "flex",
              !.fetchingHTML = ErrorToString(error)]

catchError(d, error) ==
    [d EXCEPT !.console = Append(@, Str("Error occure:")),
              !.fetching = "flex",
              !.cantainer = "none",
              !.fetchingHTML = ErrorToString(error)]

\* the fetch of call c settles. A network failure skips both then handlers and
\* reaches the catch handler. A response runs the first then handler: not ok,
\* it throws and the catch handler runs in the same turn; ok, it returns
\* value.json(), which settles in a later turn.
Respond_mut_early(c, r) ==
    /\ c \in DOMAIN reqs
    /\ reqs[c].st = "fetching"
    /\ IF r.kind = "failure"
       THEN /\ doc' = catchError(doc, Error("TypeError", "Failed to fetch"))
            /\ reqs' = [reqs EXCEPT ![c].st = "done", ![c].status = r.status]
       ELSE IF ~ok(r.status)
       THEN /\ doc' = catchError(doc, notFound(userinput))
            /\ reqs' = [reqs EXCEPT ![c].st = "done", ![c].status = r.status]
       ELSE /\ doc' = [doc EXCEPT !.fetching = "none", !.cantainer = "flex"]
            /\ reqs' = [reqs EXCEPT ![c].st = "parsing", ![c].status = r.status]
    /\ UNCHANGED <<userinput, shownCall>>

Respond(c, r) ==
    /\ c \in DOMAIN reqs
    /\ reqs[c].st = "fetching"
    /\ IF r.kind = "failure"
       THEN /\ doc' = catchError(doc, Error("TypeError", "Failed to fetch"))
            /\ reqs' = [reqs EXCEPT ![c].st = "done", ![c].status = r.status]
       ELSE IF ~ok(r.status)
       THEN /\ doc' = catchError(doc, notFound(userinput))
            /\ reqs' = [reqs EXCEPT ![c].st = "done", ![c].status = r.status]
       ELSE /\ doc' = doc
            /\ reqs' = [reqs EXCEPT ![c].st = "parsing", ![c].status = r.status]
    /\ UNCHANGED <<userinput, shownCall>>

\* value.json() of call c settles: rejected, the catch handler runs; fulfilled,
\* the second then handler runs, and the catch handler after it when it threw
JsonSettle(c, b) ==
    /\ c \in DOMAIN reqs
    /\ reqs[c].st = "parsing"
    /\ reqs' = [reqs EXCEPT ![c].st = "done", ![c].body = b]
    /\ IF ~b.parsed
       THEN /\ doc' = catchError(doc, Error("SyntaxError", "Unexpected token"))
            /\ shownCall' = shownCall
       ELSE LET r == thenRender(doc, userinput, b.value) IN
            /\ doc' = IF r.threw THEN catchError(r.doc, r.error) ELSE r.doc
            /\ shownCall' = IF r.threw THEN shownCall ELSE c
    /\ UNCHANGED userinput

WeatherNext ==
    \/ weather
    \/ \E v \in Inputs : SetInput(v)
    \/ \E c \in 1..MaxWeather, r \in Responses : Respond(c, r)
    \/ \E c \in 1..MaxWeather, b \in Bodies : JsonSettle(c, b)

\* the page as loaded, before any call of weather()
WeatherInit ==
    /\ userinput = ""
    /\ doc = [city |-> "", citytemp |-> "", wind |-> "", des |-> "",
              cantainer |-> "", fetching |-> "", fetchingHTML |-> "",
              console |-> <<>>]
    /\ reqs = <<>>
    /\ shownCall = 0

\* ---- the Promise.all demo of the same file, lines 52-84
\* p1, p2, p3 by position in the argument of Promise.all, with the delay of
\* the timer that resolves each and the value it resolves with
DemoPromises == {1, 2, 3}
DemoDelay(k) == k * 1000
DemoValue(k) == CASE k = 1 -> "Value of VP1" [] k = 2 -> "value of P2" [] OTHER -> "Value of P3"

\* what console.log receives: a string, or the array of Promise.all
LogString(s) == [t |-> "string", v |-> s, items |-> <<>>]
LogArray(items) == [t |-> "array", v |-> "", items |-> items]

\* the reactions on p1, p2, p3 in the order they were attached: the then of
\* lines 69-77 first, the one of Promise.all, line 80, after it
LogJob(k) == [k |-> "log", src |-> k]
ElementJob(k) == [k |-> "element", src |-> k]
AllJob == [k |-> "all", src |-> 0]

\* the callback of setTimeout of pk, lines 53-66: timers of one page run in
\* the order of their delays
DemoTimer(k) ==
    /\ demoJobs = <<>>
    /\ k \in demoTimers
    /\ \A j \in demoTimers : DemoDelay(k) <= DemoDelay(j)
    /\ demoTimers' = demoTimers \ {k}
    /\ demoProm' = [demoProm EXCEPT ![k] = [st |-> "fulfilled", val |-> DemoValue(k)]]
    /\ demoJobs' = <<LogJob(k), ElementJob(k)>>
    /\ UNCHANGED <<all, allValues, demoConsole>>

\* (value) => { console.log(value) } on pk
demoLog(k) ==
    /\ demoConsole' = Append(demoConsole, LogString(demoProm[k].val))
    /\ demoJobs' = Tail(demoJobs)
    /\ UNCHANGED <<demoTimers, demoProm, all, allValues>>

\* the resolve element function of Promise.all for position k: the value is
\* stored at k, and the last one to arrive fulfils all with the array
resolveElement_mut_race(k) ==
    LET values == [allValues EXCEPT ![k] = demoProm[k].val] IN
    /\ allValues' = values
    /\ IF all.st = "pending"
       THEN /\ all' = [st |-> "fulfilled", items |-> values]
            /\ demoJobs' = Append(Tail(demoJobs), AllJob)
       ELSE /\ all' = all
            /\ demoJobs' = Tail(demoJobs)
    /\ UNCHANGED <<demoTimers, demoProm, demoConsole>>

resolveElement(k) ==
    LET values == [allValues EXCEPT ![k] = demoProm[k].val] IN
    /\ allValues' = values
    /\ IF \A j \in DemoPromises \ {k} : allValues[j] # ""
       THEN /\ all' = [st |-> "fulfilled", items |-> values]
            /\ demoJobs' = Append(Tail(demoJobs), AllJob)
       ELSE /\ all' = all
            /\ demoJobs' = Tail(demoJobs)
    /\ UNCHANGED <<demoTimers, demoProm, demoConsole>>

\* all.then((value) => [console.log(value)]), lines 82-84
allLog ==
    /\ demoConsole' = Append(demoConsole, LogArray(all.items))
    /\ demoJobs' = Tail(demoJobs)
    /\ UNCHANGED <<demoTimers, demoProm, all, allValues>>

\* one microtask of the demo: the head of the queue
DemoJob ==
    /\ demoJobs # <<>>
    /\ LET j == Head(demoJobs) IN
       CASE j.k = "log" -> demoLog(j.src)
         [] j.k = "element" -> resolveElement(j.src)
         [] OTHER -> allLog

DemoNext ==
    \/ \E k \in DemoPromises : DemoTimer(k)
    \/ DemoJob

\* the top level of lines 52-84 has run: three timers set, all reactions attached
DemoInit ==
    /\ demoTimers = DemoPromises
    /\ demoProm = [k \in DemoPromises |-> [st |-> "pending", val |-> ""]]
    /\ all = [st |-> "pending", items |-> <<>>]
    /\ allValues = [k \in DemoPromises |-> ""]
    /\ demoJobs = <<>>
    /\ demoConsole = <<>>

\* ------------------------------------------------------- classes/constructor.js
\* A string is the sequence of its pieces: single characters where the code
\* looks into the string, whole literals elsewhere; + is \o.
Lower == <<"a", "b", "c", "d", "e", "f", "g", "h", "i", "j", "k", "l", "m", "n", "o", "p", "q", "r", "s", "t", "u", "v", "w", "x", "y", "z">>
Upper == <<"A", "B", "C", "D", "E", "F", "G", "H", "I", "J", "K", "L", "M", "N", "O", "P", "Q", "R", "S", "T", "U", "V", "W", "X", "Y", "Z">>

\* String.prototype.toUpperCase
toUpperChar(ch) ==
    IF \E i \in DOMAIN Lower : Lower[i] = ch
    THEN Upper[CHOOSE i \in DOMAIN Lower : Lower[i] = ch]
    ELSE ch
toUpperCase(str) == [i \in DOMAIN str |-> toUpperChar(str[i])]

\* Number.prototype.toString of a natural number
RECURSIVE NumberToString(_)
NumberToString(n) ==
    IF n < 10 THEN <<ToString(n)>>
    ELSE NumberToString(n \div 10) \o <<ToString(n % 10)>>

\* String.prototype.padStart(2, '0')
padStart2(str) == IF Len(str) >= 2 THEN str ELSE <<"0">> \o str

\* a field value: a string, a number (its decimal text) or undefined
Text(str) == [t |-> "string", v |-> str]
Number(dec) == [t |-> "number", v |-> <<dec>>]
FieldToString(x) == IF x.t = "undefined" THEN <<"undefined">> ELSE x.v
\* x == undefined
IsUndefined(x) == x.t \in {"undefined", "null"}

\* the arguments the calls are made with, and the samples of new Date()
Names == {<<>>, <<"a", "l", "i">>}
Programs == {<<"c", "s">>}
RollNumbers == {Number("30"), Undefined}
Nices == {Number("5429332333552")}
Dates == {[hours |-> 9, minutes |-> 5, seconds |-> 0, date |-> 5, month |-> 10, year |-> 2026],
          [hours |-> 23, minutes |-> 59, seconds |-> 59, date |-> 31, month |-> 11, year |-> 2025]}
Classes == {"Student", "CS_Student"}

\* the object a constructor call leaves: only name and program are set
constructor(cls, name, program) ==
    [cls |-> cls,
     name |-> Text(toUpperCase(name)), program |-> Text(toUpperCase(program)),
     hours |-> Undefined, minutes |-> Undefined, seconds |-> Undefined, date |-> Undefined,
     rnumber |-> Undefined, nice |-> Undefined]

New(cls, name, program) ==
    /\ student' = constructor(cls, name, program)
    /\ out' = << toUpperCase(name) \o <<" Your Form is in panding please submit it first">> >>
    /\ lastOp' = "new"
    /\ submitted' = FALSE
    /\ cancelled' = FALSE

\* submit(), lines 13-23
submit_mut_rename(s, now) ==
    [s EXCEPT !.hours = Text(padStart2(NumberToString(now.hours))),
              !.minutes = Text(padStart2(NumberToString(now.minutes))),
              !.seconds = Text(padStart2(NumberToString(now.seconds))),
              !.date = Text(NumberToString(now.date) \o <<"/">> \o NumberToString(now.month)
                            \o <<"/">> \o NumberToString(now.year)),
              !.program = Text(<<"SUBMITTED">>)]

submit_mut_nodate(s, now) ==
    [s EXCEPT !.hours = Text(padStart2(NumberToString(now.hours))),
              !.minutes = Text(padStart2(NumberToString(now.minutes))),
              !.seconds = Text(padStart2(NumberToString(now.seconds)))]

submitFields(s, now) ==
    [s EXCEPT !.hours = Text(padStart2(NumberToString(now.hours))),
              !.minutes = Text(padStart2(NumberToString(now.minutes))),
              !.seconds = Text(padStart2(NumberToString(now.seconds))),
              !.date = Text(NumberToString(now.date) \o <<"/">> \o NumberToString(now.month)
                            \o <<"/">> \o NumberToString(now.year))]

submit(now) ==
    /\ out' = << FieldToString(student.name) \o <<" Your Form is subbmitted For Prgram ">>
                 \o FieldToString(student.program) >>
    /\ student' = submitFields(student, now)
    /\ lastOp' = "submit"
    /\ submitted' = TRUE
    /\ UNCHANGED cancelled

\* cancel(), lines 25-30
cancel_mut_program_only(s) == [s EXCEPT !.program = Undefined]

cancelFields(s) == [s EXCEPT !.name = Undefined, !.program = Undefined]

cancel(x) ==
    /\ out' = << FieldToString(student.name) \o <<" Your Form was Cancelled ", " on  ">>
                 \o NumberToString(x.date) \o <<"/">> \o NumberToString(x.month) \o <<"/">>
                 \o NumberToString(x.year) \o <<" For Program ">>
                 \o FieldToString(student.program) >>
    /\ student' = cancelFields(student)
    /\ lastOp' = "cancel"
    /\ cancelled' = TRUE
    /\ UNCHANGED submitted

\* Student.info(), lines 32-39: the lines it prints
NOT_EXISTS == <<"Student not exits!">>

Student_info(s) ==
    IF IsUndefined(s.name)
    THEN << NOT_EXISTS >>
    ELSE << <<"\nStudent Informations:">>,
            <<"Name: ">> \o FieldToString(s.name) \o <<"\nProgram: ">>
              \o FieldToString(s.program) \o <<"\nDate: ">> \o FieldToString(s.hours)
              \o <<":">> \o FieldToString(s.minutes) \o <<":">> \o FieldToString(s.seconds)
              \o <<" on ">> \o FieldToString(s.date) >>

\* CS_Student.info(), lines 49-56
CS_Student_info_mut_super_first(s) ==
    Student_info(s)
    \o (IF IsUndefined(s.name)
        THEN << NOT_EXISTS >>
        ELSE << <<"\nRoll Number: ">> \o FieldToString(s.rnumber) \o <<"\nNICE: ">>
                \o FieldToString(s.nice) >>)

CS_Student_info(s) ==
    IF IsUndefined(s.name)
    THEN << NOT_EXISTS >>
    ELSE Student_info(s)
         \o << <<"\nRoll Number: ">> \o FieldToString(s.rnumber) \o <<"\nNICE: ">>
               \o FieldToString(s.nice) >>

info ==
    /\ out' = IF student.cls = "CS_Student" THEN CS_Student_info(student)
              ELSE Student_info(student)
    /\ lastOp' = "info"
    /\ UNCHANGED <<student, submitted, cancelled>>

\* CS_Student.add(rnumber, nice), lines 45-48
addFields_mut_rename(s, rnumber, nice) ==
    [s EXCEPT !.rnumber = rnumber, !.nice = nice, !.name = Text(<<"A", "L", "I">>)]

addFields(s, rnumber, nice) == [s EXCEPT !.rnumber = rnumber, !.nice = nice]

add(rnumber, nice) ==
    /\ student.cls = "CS_Student"
    /\ student' = addFields(student, rnumber, nice)
    /\ out' = <<>>
    /\ lastOp' = "add"
    /\ UNCHANGED <<submitted, cancelled>>

StudentNext ==
    \/ \E cls \in Classes, name \in Names, program \in Programs : New(cls, name, program)
    \/ \E now \in Dates : submit(now)
    \/ \E x \in Dates : cancel(x)
    \/ info
    \/ \E rnumber \in RollNumbers, nice \in Nices : add(rnumber, nice)

\* lines 63-64: let rizwan = new CS_Student(...); rizwan.add(30, 5429332333552)
RIZWAN_NAME == <<"R", "i", "z", "w", "a", "n", " ", "A", "h", "m", "e", "d", " ">>
RIZWAN_PROGRAM == <<"I", "n", "o", "f", "r", "m", "a", "t", "i", "o", "n", " ", "T", "e", "h", "c", "n", "o", "l", "o", "g", "y">>

StudentInit ==
    /\ student = addFields(constructor("CS_Student", RIZWAN_NAME, RIZWAN_PROGRAM),
                           Number("30"), Number("5429332333552"))
    /\ out = <<>>
    /\ lastOp = "add"
    /\ submitted = FALSE
    /\ cancelled = FALSE

\* ------------------------------------------------------- unnamed/part_000
\* the values new Date() may give a tick: every hour, two minutes, two seconds
ClockSamples == [hours : 0..23, minutes : {9, 10}, seconds : {5, 30}]
NoSample == [hours |-> -1, minutes |-> -1, seconds |-> -1]

\* x < 10 ? '0' + x : x, as the text a template literal makes of it
leadingZero(x) == IF x < 10 THEN <<"0">> \o NumberToString(x) ELSE NumberToString(x)

\* lines 11-28: what one tick writes into the four nodes for the time a
render_mut_noon(a) ==
    LET period == IF a.hours > 12 THEN "PM" ELSE "AM"
        h12 == a.hours % 12
        hours == IF h12 # 0 THEN h12 ELSE 12
    IN  [h |-> leadingZero(hours) \o <<":">>,
         m |-> leadingZero(a.minutes) \o <<":">>,
         s |-> leadingZero(a.seconds) \o <<"  ">>,
         ampm |-> <<" ", period>>]

render(a) ==
    LET period == IF a.hours >= 12 THEN "PM" ELSE "AM"
        h12 == a.hours % 12
        hours == IF h12 # 0 THEN h12 ELSE 12
    IN  [h |-> leadingZero(hours) \o <<":">>,
         m |-> leadingZero(a.minutes) \o <<":">>,
         s |-> leadingZero(a.seconds) \o <<"  ">>,
         ampm |-> <<" ", period>>]

\* the callback of setInterval(..., 900), lines 4-30: sample the time, render
Tick_mut_keep_period ==
    /\ timer
    /\ \E a \in ClockSamples :
          /\ time' = IF sample = NoSample THEN render(a)
                     ELSE [render(a) EXCEPT !.ampm = time.ampm]
          /\ sample' = a
    /\ ticks' = (ticks + 1) % TickWrap
    /\ UNCHANGED <<counterI, timer>>

Tick_mut_once ==
    /\ timer
    /\ \E a \in ClockSamples :
          /\ time' = render(a)
          /\ sample' = a
    /\ ticks' = (ticks + 1) % TickWrap
    /\ timer' = FALSE
    /\ UNCHANGED counterI

Tick ==
    /\ timer
    /\ \E a \in ClockSamples :
          /\ time' = render(a)
          /\ sample' = a
    /\ ticks' = (ticks + 1) % TickWrap
    /\ UNCHANGED <<counterI, timer>>

ClockNext == Tick

\* lines 3-4: let i = 0; setInterval(...): the timer is armed, nothing rendered
ClockInit ==
    /\ time = [h |-> <<>>, m |-> <<>>, s |-> <<>>, ampm |-> <<>>]
    /\ counterI = 0
    /\ timer = TRUE
    /\ sample = NoSample
    /\ ticks = 0

\* ------------------------------------------------------- BurgerKings/script.js
MAX_RETRIES == 3
CACHE_TTL == 15 * 60 * 1000

\* String.prototype.toLowerCase
LowerOf ==
    [ch \in {Upper[k] : k \in DOMAIN Upper} |-> Lower[CHOOSE k \in DOMAIN Upper : Upper[k] = ch]]
toLowerChar(ch) == IF ch \in DOMAIN LowerOf THEN LowerOf[ch] ELSE ch
toLowerCase(str) == [k \in DOMAIN str |-> toLowerChar(str[k])]

\* the cities asked for, and `city_${city}_${countryCode}`.toLowerCase()
LONDON == <<"L", "o", "n", "d", "o", "n">>
Cities == {LONDON, toLowerCase(LONDON), <<"P", "a", "r", "i", "s">>}
cacheKey_mut_case(city, countryCode) == <<"city_">> \o city \o <<"_">> \o countryCode
cacheKey(city, countryCode) == toLowerCase(<<"city_">> \o city \o <<"_">> \o countryCode)
CacheKeys == {cacheKey(city, <<>>) : city \in Cities}

\* JavaScript values of a response: numbers beside Str, Undefined and Null
\* a number is kept in tenths: Num(215) is 21.5
Num(n) == [t |-> "number", v |-> n]
Falsy(x) ==
    \/ x.t \in {"undefined", "null"}
    \/ x.t = "number" /\ x.v = 0
    \/ x.t = "string" /\ x.v = ""
\* x || d
OrElse(x, d) == IF Falsy(x) THEN d ELSE x

\* the JSON objects a response may carry: all fields, or none
RawResponses == {
    [city |-> Str("London"), temp |-> Num(215), feels_like |-> Num(190),
     humidity |-> Num(600), speed |-> Num(44), deg |-> Num(2700),
     description |-> Str("rainy"), icon |-> Str("10d")],
    [city |-> Undefined, temp |-> Undefined, feels_like |-> Undefined,
     humidity |-> Undefined, speed |-> Undefined, deg |-> Undefined,
     description |-> Undefined, icon |-> Undefined] }

\* new WeatherData(rawData), lines 73-85, without its three Date fields
WeatherData(rawData) ==
    [city |-> OrElse(rawData.city, Str("Unknown")),
     temperature |-> OrElse(rawData.temp, Num(0)),
     feelsLike |-> OrElse(rawData.feels_like, Num(0)),
     humidity |-> OrElse(rawData.humidity, Num(0)),
     windSpeed |-> OrElse(rawData.speed, Num(0)),
     windDirection |-> OrElse(rawData.deg, Num(0)),
     conditions |-> OrElse(rawData.description, Str("clear")),
     icon |-> OrElse(rawData.icon, Str("01d"))]

CacheData == {WeatherData(rawData) : rawData \in RawResponses}

\* a key without entry in the Map
NoEntry == [absent |-> TRUE]

\* WeatherCache.set(key, data) at time t, lines 44-49
cacheSet(st, key, data, t) == [st EXCEPT ![key] = [timestamp |-> t, data |-> data]]

\* WeatherCache.get(key) at time t, lines 51-59: the value returned and the
\* store it leaves
cacheGet_mut_boundary(st, key, t) ==
    IF st[key] = NoEntry THEN [value |-> Null, store |-> st]
    ELSE IF t - st[key].timestamp >= CACHE_TTL
    THEN [value |-> Null, store |-> [st EXCEPT ![key] = NoEntry]]
    ELSE [value |-> st[key].data, store |-> st]

cacheGet(st, key, t) ==
    IF st[key] = NoEntry THEN [value |-> Null, store |-> st]
    ELSE IF t - st[key].timestamp > CACHE_TTL
    THEN [value |-> Null, store |-> [st EXCEPT ![key] = NoEntry]]
    ELSE [value |-> st[key].data, store |-> st]

\* WeatherCache.cleanup() at time t, lines 61-68
cacheCleanup(st, t) ==
    [key \in DOMAIN st |->
        IF st[key] # NoEntry /\ t - st[key].timestamp > CACHE_TTL
        THEN NoEntry ELSE st[key]]

\* the calls on a WeatherCache
CacheSet(key, data) ==
    /\ store' = cacheSet(store, key, data, dateNow)
    /\ lastSet' = [lastSet EXCEPT ![key] = [timestamp |-> dateNow, data |-> data]]
    /\ cacheOp' = [op |-> "set", key |-> key, value |-> data, at |-> dateNow]
    /\ UNCHANGED <<dateNow, advances>>

CacheGet(key) ==
    LET got == cacheGet(store, key, dateNow) IN
    /\ store' = got.store
    /\ cacheOp' = [op |-> "get", key |-> key, value |-> got.value, at |-> dateNow]
    /\ UNCHANGED <<dateNow, advances, lastSet>>

\* the callback of setInterval(() => this.cleanup(), CACHE_TTL), line 41
Cleanup ==
    /\ store' = cacheCleanup(store, dateNow)
    /\ UNCHANGED <<dateNow, advances, lastSet, cacheOp>>

\* time passes: a millisecond, or the time to live of an entry
Advance(dt) ==
    /\ advances < MaxAdvance
    /\ advances' = advances + 1
    /\ dateNow' = dateNow + dt
    /\ UNCHANGED <<store, lastSet, cacheOp>>

CacheNext ==
    \/ \E key \in CacheKeys, data \in CacheData : CacheSet(key, data)
    \/ \E key \in CacheKeys : CacheGet(key)
    \/ Cleanup
    \/ \E dt \in {1, CACHE_TTL} : Advance(dt)

\* new WeatherCache(), lines 39-42: an empty Map
CacheInit ==
    /\ dateNow = 0
    /\ advances = 0
    /\ store = [key \in CacheKeys |-> NoEntry]
    /\ lastSet = [key \in CacheKeys |-> NoEntry]
    /\ cacheOp = [op |-> "new", key |-> <<>>, value |-> Null, at |-> 0]

\* ---- WeatherApiClient.fetchWithRetry, lines 105-117
WEATHER_API_BASE == "https://api.weatherapp.com/v3"
DEMO_KEY == "DEMO_KEY"

\* encodeURIComponent, on the characters a city has here
encodeURIComponent(str) == [k \in DOMAIN str |-> IF str[k] = " " THEN "%20" ELSE str[k]]

\* the url of getWeatherByCity, line 124
weatherUrl(city, countryCode) ==
    <<WEATHER_API_BASE, "/weather?q=">> \o encodeURIComponent(city)
        \o (IF countryCode # <<>> THEN <<",">> \o countryCode ELSE <<>>)
        \o <<"&appid=", DEMO_KEY>>

\* what a fetch comes to: a response with a status, or a rejection
ApiResponses ==
    [kind : {"response"}, status : {200, 503}] \cup {[kind |-> "failure", status |-> 0]}

\* what response.json() comes to: the parsed object, or a SyntaxError
ApiBodies ==
    {[parsed |-> TRUE, value |-> rawData] : rawData \in RawResponses}
        \cup {[parsed |-> FALSE, value |-> Null]}

\* one call of fetchWithRetry(url) with its nested retries: the await it is
\* suspended at (st), the retries argument of the innermost frame, the number
\* of fetches made and of those that failed, the delay of the latest backoff,
\* and how the call ended
fetchWithRetry(url) ==
    [url |-> url, st |-> "fetching", retries |-> MAX_RETRIES, attempts |-> 1,
     failed |-> 0, delay |-> 0, outcome |-> "pending", value |-> Null]

\* the catch block, lines 110-116
onCatch_mut_once_more(f, error) ==
    IF f.retries >= 0
    THEN [f EXCEPT !.st = "backoff", !.failed = @ + 1,
                   !.delay = 1000 * (MAX_RETRIES - f.retries + 1)]
    ELSE [f EXCEPT !.st = "done", !.failed = @ + 1,
                   !.outcome = "rejected", !.value = error]

onCatch(f, error) ==
    IF f.retries > 0
    THEN [f EXCEPT !.st = "backoff", !.failed = @ + 1,
                   !.delay = 1000 * (MAX_RETRIES - f.retries + 1)]
    ELSE [f EXCEPT !.st = "done", !.failed = @ + 1,
                   !.outcome = "rejected", !.value = error]

\* after await fetch(url), lines 107-109
onResponse_mut_no_status(f, response) ==
    IF response.kind = "failure" THEN onCatch(f, Error("TypeError", "Failed to fetch"))
    ELSE IF ~ok(response.status)
    THEN onCatch(f, Error("Error", "HTTP error"))
    ELSE [f EXCEPT !.st = "reading"]

onResponse(f, response) ==
    IF response.kind = "failure" THEN onCatch(f, Error("TypeError", "Failed to fetch"))
    ELSE IF ~ok(response.status)
    THEN onCatch(f, Error("Error", "HTTP " \o ToString(response.status)))
    ELSE [f EXCEPT !.st = "reading"]

\* after await response.json(), line 109
onJson(f, json) ==
    IF json.parsed
    THEN [f EXCEPT !.st = "done", !.outcome = "resolved", !.value = json.value]
    ELSE onCatch(f, Error("SyntaxError", "Unexpected end of JSON input"))

\* after the await of the setTimeout promise, lines 112-113
onTimeout(f) ==
    [f EXCEPT !.st = "fetching", !.retries = @ - 1, !.attempts = @ + 1]

\* fetchWithRetry called on its own
FetchCall(url) ==
    /\ Len(fetches) < MaxFetch
    /\ fetches' = Append(fetches, fetchWithRetry(url))

FetchSettles(i, response) ==
    /\ i \in DOMAIN fetches /\ fetches[i].st = "fetching"
    /\ fetches' = [fetches EXCEPT ![i] = onResponse(@, response)]

FetchJson(i, json) ==
    /\ i \in DOMAIN fetches /\ fetches[i].st = "reading"
    /\ fetches' = [fetches EXCEPT ![i] = onJson(@, json)]

FetchTimeout(i) ==
    /\ i \in DOMAIN fetches /\ fetches[i].st = "backoff"
    /\ fetches' = [fetches EXCEPT ![i] = onTimeout(@)]

FetchNext ==
    \/ \E url \in {weatherUrl(LONDON, <<>>)} : FetchCall(url)
    \/ \E i \in 1..MaxFetch, response \in ApiResponses : FetchSettles(i, response)
    \/ \E i \in 1..MaxFetch, json \in ApiBodies : FetchJson(i, json)
    \/ \E i \in 1..MaxFetch : FetchTimeout(i)

FetchInit == fetches = <<>>

\* ---- WeatherWidget, lines 135-200
UNITS == [METRIC |-> [temp |-> "°C", speed |-> "m/s"],
          IMPERIAL |-> [temp |-> "°F", speed |-> "mph"]]

\* Math.round and the string of a number, on tenths
MathRound(x) == ((x.v + 5) \div 10) * 10
NumToString(n) ==
    IF n % 10 = 0 THEN ToString(n \div 10)
    ELSE ToString(n \div 10) \o "." \o ToString(n % 10)

\* WeatherData.getTemperature and getWindSpeed, lines 87-93
getTemperature(data, unit) ==
    NumToString(MathRound(data.temperature)) \o UNITS[unit].temp
getWindSpeed(data, unit) ==
    NumToString(MathRound(data.windSpeed)) \o " " \o UNITS[unit].speed

\* String.prototype.trim
trim(str) ==
    LET solid == {k \in DOMAIN str : str[k] # " "} IN
    IF solid = {} THEN <<>>
    ELSE SubSeq(str, CHOOSE k \in solid : \A j \in solid : k <= j,
                     CHOOSE k \in solid : \A j \in solid : k >= j)

\* what the user may have typed into .city-input
SearchInputs == {<<" ">>, LONDON, toLowerCase(LONDON) \o <<" ">>}

\* the content of .weather-display: the nodes of initUI, lines 151-160
initUI ==
    [kind |-> "current-weather", cityName |-> "--", temperature |-> "--",
     conditions |-> "--", wind |-> "Wind: --", humidity |-> "Humidity: --"]

\* showLoading, lines 193-195: the content becomes the loading node
showLoading_mut_keep(d) == IF d.kind = "current-weather" THEN d ELSE [kind |-> "loading"]

showLoading(d) == [kind |-> "loading"]

\* showError, lines 197-199
showError(d, message) == [kind |-> "error", message |-> message]

\* displayWeather, lines 185-191: querySelector('.city-name') is null unless
\* the nodes of initUI are there, and the assignment to null.textContent throws
displayWeather(d, data, units) ==
    IF d.kind = "current-weather"
    THEN [threw |-> FALSE, error |-> Null,
          display |-> [kind |-> "current-weather",
                       cityName |-> data.city.v,
                       temperature |-> getTemperature(data, units),
                       conditions |-> data.conditions.v,
                       wind |-> "Wind: " \o getWindSpeed(data, units),
                       humidity |-> "Humidity: " \o NumToString(data.humidity.v) \o "%"]]
    ELSE [threw |-> TRUE, display |-> d,
          error |-> Error("TypeError", "Cannot set properties of null (setting 'textContent')")]

\* the catch block of updateWeather, lines 180-182: the display it leaves and
\* the state of the promise that updateWeather returned
caught(d, error) == [display |-> showError(d, error.message), promise |-> "fulfilled"]

\* the rest of updateWeather once getWeatherByCity has resolved with data,
\* lines 178-182
showResolved(d, data) ==
    LET shown == displayWeather(d, data, "METRIC") IN
    IF shown.threw THEN caught(shown.display, shown.error)
    ELSE [display |-> shown.display, promise |-> "fulfilled"]

\* no call has ended yet
NoCall == [outcome |-> "none"]

\* the end of an updateWeather call, as lastDone keeps it
Done(key, outcome, value, promise) ==
    [key |-> key, outcome |-> outcome, value |-> value, promise |-> promise]

\* updateWeather(city), lines 175-183, up to the first await that waits:
\* showLoading, then getWeatherByCity, lines 119-125; a cached value is
\* displayed in the same task
updateWeather(city) ==
    LET key == cacheKey(city, <<>>)
        cached == cacheGet(store, key, dateNow)
        loading == showLoading(weatherDisplay) IN
    /\ store' = cached.store
    /\ IF cached.value # Null
       THEN /\ weatherDisplay' = showResolved(loading, cached.value).display
            /\ lastDone' = Done(key, "hit", cached.value,
                                showResolved(loading, cached.value).promise)
            /\ UNCHANGED calls
       ELSE /\ BagCardinality(calls) < MaxSearch
            /\ weatherDisplay' = loading
            /\ calls' = calls (+) SetToBag({[city |-> city, key |-> key,
                                              f |-> fetchWithRetry(weatherUrl(city, <<>>))]})
            /\ UNCHANGED lastDone
    /\ UNCHANGED <<dateNow, advances, lastSet, cacheOp>>

\* the click handler of .search-btn, lines 169-172
Search_mut_record(input) ==
    /\ trim(input) # <<>>
    /\ updateWeather(trim(input))
    /\ lastCity' = [t |-> "string", v |-> trim(input)]

Search(input) ==
    /\ trim(input) # <<>>
    /\ updateWeather(trim(input))
    /\ UNCHANGED lastCity

\* WeatherApplication.refreshAllWidgets, lines 236-241, also the handler of
\* the refresh-all button and of the online event: the one widget of
\* setupDefaultWidget is updated for widget.lastCity || 'London'
refreshAllWidgets ==
    /\ updateWeather(IF Falsy(lastCity) THEN LONDON ELSE lastCity.v)
    /\ UNCHANGED lastCity

\* a step of the fetchWithRetry of call c, which takes it to f; when that ends
\* the rest of getWeatherByCity, lines 126-128, and of updateWeather run in the
\* same task
Continue_mut_keep_first(c, f) ==
    /\ IF f.st # "done"
       THEN /\ calls' = (calls (-) SetToBag({c})) (+) SetToBag({[c EXCEPT !.f = f]})
            /\ UNCHANGED <<store, lastSet, weatherDisplay, lastDone>>
       ELSE /\ calls' = calls (-) SetToBag({c})
            /\ IF f.outcome = "resolved"
               THEN LET weatherData == WeatherData(f.value) IN
                    /\ store' = IF store[c.key] = NoEntry
                                 THEN cacheSet(store, c.key, weatherData, dateNow)
                                 ELSE store
                    /\ lastSet' = [lastSet EXCEPT ![c.key] =
                                      [timestamp |-> dateNow, data |-> weatherData]]
                    /\ weatherDisplay' = showResolved(weatherDisplay, weatherData).display
                    /\ lastDone' = Done(c.key, "resolved", weatherData,
                                        showResolved(weatherDisplay, weatherData).promise)
               ELSE /\ weatherDisplay' = caught(weatherDisplay, f.value).display
                    /\ lastDone' = Done(c.key, "rejected", f.value,
                                        caught(weatherDisplay, f.value).promise)
                    /\ UNCHANGED <<store, lastSet>>
    /\ UNCHANGED <<dateNow, advances, cacheOp, lastCity>>

Continue(c, f) ==
    /\ IF f.st # "done"
       THEN /\ calls' = (calls (-) SetToBag({c})) (+) SetToBag({[c EXCEPT !.f = f]})
            /\ UNCHANGED <<store, lastSet, weatherDisplay, lastDone>>
       ELSE /\ calls' = calls (-) SetToBag({c})
            /\ IF f.outcome = "resolved"
               THEN LET weatherData == WeatherData(f.value) IN
                    /\ store' = cacheSet(store, c.key, weatherData, dateNow)
                    /\ lastSet' = [lastSet EXCEPT ![c.key] =
                                      [timestamp |-> dateNow, data |-> weatherData]]
                    /\ weatherDisplay' = showResolved(weatherDisplay, weatherData).display
                    /\ lastDone' = Done(c.key, "resolved", weatherData,
                                        showResolved(weatherDisplay, weatherData).promise)
               ELSE /\ weatherDisplay' = caught(weatherDisplay, f.value).display
                    /\ lastDone' = Done(c.key, "rejected", f.value,
                                        caught(weatherDisplay, f.value).promise)
                    /\ UNCHANGED <<store, lastSet>>
    /\ UNCHANGED <<dateNow, advances, cacheOp, lastCity>>

ApiSettles(c, response) ==
    /\ c \in BagToSet(calls) /\ c.f.st = "fetching"
    /\ Continue(c, onResponse(c.f, response))

ApiJson(c, json) ==
    /\ c \in BagToSet(calls) /\ c.f.st = "reading"
    /\ Continue(c, onJson(c.f, json))

ApiTimeout(c) ==
    /\ c \in BagToSet(calls) /\ c.f.st = "backoff"
    /\ Continue(c, onTimeout(c.f))

WidgetNext ==
    \/ \E input \in SearchInputs : Search(input) /\ UNCHANGED fetchVars
    \/ refreshAllWidgets /\ UNCHANGED fetchVars
    \/ \E c \in BagToSet(calls), response \in ApiResponses :
          ApiSettles(c, response) /\ UNCHANGED fetchVars
    \/ \E c \in BagToSet(calls), json \in ApiBodies : ApiJson(c, json) /\ UNCHANGED fetchVars
    \/ \E c \in BagToSet(calls) : ApiTimeout(c) /\ UNCHANGED fetchVars
    \/ Advance(CACHE_TTL) /\ UNCHANGED <<fetchVars, widgetVars>>
    \/ Cleanup /\ UNCHANGED <<fetchVars, widgetVars>>

\* new WeatherWidget('weather-container', ..), lines 136-143
WidgetInit ==
    /\ calls = EmptyBag
    /\ weatherDisplay = initUI
    /\ lastDone = NoCall
    /\ lastCity = Undefined

\* ---- throttle(fn, delay), lines 27-35
\* the delays a wrapper is made with, and a clock value no less than those
Delays == {2, 3}
StartTime == 3

\* the arguments of a call, and what fn returns for them
ThrottleArgs == {"a", "b"}
fn(args) == [t |-> "fn", args |-> args]

\* the body of the wrapper, lines 30-33, called at time t with lastCall last:
\* whether fn is invoked, and the lastCall it leaves
wrapper_mut_extend(last, t, delay) ==
    IF t - last < delay THEN [invoke |-> FALSE, lastCall |-> t]
    ELSE [invoke |-> TRUE, lastCall |-> t]

wrapper(last, t, delay) ==
    IF t - last < delay THEN [invoke |-> FALSE, lastCall |-> last]
    ELSE [invoke |-> TRUE, lastCall |-> t]

\* throttle(fn, delay), lines 27-28
throttle(delay) ==
    /\ throttleDelay = 0
    /\ throttleDelay' = delay
    /\ lastCall' = 0
    /\ UNCHANGED <<getTime, fnCalls, returned>>

\* a call of the wrapper
ThrottledCall(args) ==
    LET w == wrapper(lastCall, getTime, throttleDelay) IN
    /\ throttleDelay # 0
    /\ lastCall' = w.lastCall
    /\ fnCalls' = IF w.invoke THEN Append(fnCalls, [at |-> getTime, args |-> args])
                  ELSE fnCalls
    /\ returned' = IF w.invoke THEN fn(args) ELSE Undefined
    /\ UNCHANGED <<getTime, throttleDelay>>

\* time passes
ThrottleAdvance(dt) ==
    /\ getTime + dt <= MaxTime
    /\ getTime' = getTime + dt
    /\ UNCHANGED <<throttleDelay, lastCall, fnCalls, returned>>

ThrottleNext ==
    \/ \E delay \in Delays : throttle(delay)
    \/ \E args \in ThrottleArgs : ThrottledCall(args)
    \/ \E dt \in {1, 2} : ThrottleAdvance(dt)

ThrottleInit ==
    /\ getTime = StartTime
    /\ throttleDelay = 0
    /\ lastCall = 0
    /\ fnCalls = <<>>
    /\ returned = Undefined

\* ------------------------------------------------- the two script loaders
Init ==
    /\ CallbackInit /\ PromiseInit /\ WeatherInit /\ StudentInit /\ ClockInit /\ CacheInit /\ FetchInit /\ WidgetInit /\ ThrottleInit /\ DemoInit

LoaderNext ==
    \/ CallbackNext /\ UNCHANGED <<body, prom, registered, jobs, prConsole>>
    \/ PromiseNext /\ UNCHANGED <<head, loadCalls, funcCalls, cbConsole>>

SpecLoader == Init /\ [][LoaderNext /\ UNCHANGED <<weatherVars, studentVars, clockVars, cacheVars, fetchVars, widgetVars, throttleVars, demoVars>>]_vars

\* ------------------------------------------------- the weather page
SpecWeather == Init /\ [][WeatherNext /\ UNCHANGED <<loaderVars, studentVars, clockVars, cacheVars, fetchVars, widgetVars, throttleVars, demoVars>>]_vars

\* ------------------------------------------------- the Student classes
SpecStudent == Init /\ [][StudentNext /\ UNCHANGED <<loaderVars, weatherVars, clockVars, cacheVars, fetchVars, widgetVars, throttleVars, demoVars>>]_vars

\* ------------------------------------------------- one page, one script
\* a page loads either the script loaders or the weather script
LoaderIdle == CallbackInit /\ PromiseInit
WeatherIdle == WeatherInit

PagesNext ==
    \/ WeatherIdle /\ LoaderNext /\ UNCHANGED weatherVars
    \/ LoaderIdle /\ WeatherNext /\ UNCHANGED loaderVars

SpecPages == Init /\ [][PagesNext /\ UNCHANGED <<studentVars, clockVars, cacheVars, fetchVars, widgetVars, throttleVars, demoVars>>]_vars

\* ------------------------------------------------- the clock
\* the browser runs the callback of an armed interval timer again and again
SpecClock ==
    /\ Init
    /\ [][ClockNext /\ UNCHANGED <<loaderVars, weatherVars, studentVars, cacheVars, fetchVars, widgetVars, throttleVars, demoVars>>]_vars
    /\ WF_clockVars(Tick)

\* ------------------------------------------------- the cache on its own
SpecCache ==
    Init /\ [][CacheNext /\ UNCHANGED <<loaderVars, weatherVars, studentVars, clockVars, fetchVars, widgetVars, throttleVars, demoVars>>]_vars

\* ------------------------------------------------- fetchWithRetry on its own
\* every fetch and every json() settles, and every timer fires
SpecFetch ==
    /\ Init
    /\ [][FetchNext /\ UNCHANGED <<loaderVars, weatherVars, studentVars, clockVars, cacheVars, widgetVars, throttleVars, demoVars>>]_vars
    /\ \A i \in 1..MaxFetch :
          /\ WF_fetchVars(\E response \in ApiResponses : FetchSettles(i, response))
          /\ WF_fetchVars(\E json \in ApiBodies : FetchJson(i, json))
          /\ WF_fetchVars(FetchTimeout(i))

\* ------------------------------------------------- the weather widget
SpecWidget ==
    Init /\ [][WidgetNext /\ UNCHANGED <<loaderVars, weatherVars, studentVars, clockVars, throttleVars, demoVars>>]_vars

\* ------------------------------------------------- the throttled wrapper
SpecThrottle ==
    Init /\ [][ThrottleNext /\ UNCHANGED <<loaderVars, weatherVars, studentVars, clockVars, cacheVars, fetchVars, widgetVars, demoVars>>]_vars

\* ------------------------------------------------- the Promise.all demo
\* the script of fatch API runs its demo while weather() may be called; a task
\* of one runs between the tasks of the other, and every timer fires
DemoPageNext ==
    \/ DemoNext /\ UNCHANGED weatherVars
    \/ demoJobs = <<>> /\ WeatherNext /\ Len(reqs') <= MaxDemoWeather /\ UNCHANGED demoVars

SpecDemo ==
    /\ Init
    /\ [][DemoPageNext /\ UNCHANGED <<loaderVars, studentVars, clockVars, cacheVars, fetchVars, widgetVars, throttleVars>>]_vars
    /\ WF_demoVars(DemoNext)

\* ================================================================= claims
\* ---- the callback script loader, under SpecLoader

LoadCallsOf(el) == {i \in DOMAIN loadCalls : loadCalls[i].el = el}

\* C1: when the load event of the element of a call func(src, load) has fired,
\* load has been called with error flag false and that src; when its error
\* event has fired, load has been called with error flag true and that src.
C1_LoadReportsOutcome ==
    \A el \in DOMAIN head :
        /\ head[el].st = "loaded" =>
              /\ LoadCallsOf(el) # {}
              /\ \A i \in LoadCallsOf(el) :
                    loadCalls[i].error = FALSE /\ loadCalls[i].src = head[el].src
        /\ head[el].st = "failed" =>
              /\ LoadCallsOf(el) # {}
              /\ \A i \in LoadCallsOf(el) :
                    loadCalls[i].error = TRUE /\ loadCalls[i].src = head[el].src

\* both outcomes have been reported, for two different srcs
C1_Witness ==
    \E i, j \in DOMAIN loadCalls :
        /\ loadCalls[i].error = FALSE /\ loadCalls[i].src = BOOTSTRAP_URL
        /\ loadCalls[j].error = TRUE /\ loadCalls[j].src = "missing.js"

\* C2: for every call of func, load is invoked at most once, not at all while
\* the element's event is outstanding, exactly once when the event has been
\* delivered, and its first argument is a boolean.
C2_LoadExactlyOnce ==
    /\ \A el \in DOMAIN head :
          Cardinality(LoadCallsOf(el)) = (IF head[el].st = "pending" THEN 0 ELSE 1)
    /\ \A i \in DOMAIN loadCalls :
          loadCalls[i].el \in DOMAIN head /\ loadCalls[i].error \in BOOLEAN

\* one call has had its event and its callback, another is still waiting
C2_Witness ==
    \E a, b \in DOMAIN head :
        /\ head[a].st = "failed" /\ Cardinality(LoadCallsOf(a)) = 1
        /\ head[b].st = "pending" /\ LoadCallsOf(b) = {}

\* ---- the promise script loader chain, under SpecLoader

InFlight == {el \in DOMAIN body : body[el].st = "pending"}

\* C3: func is invoked at most three times, always with the same URL; an
\* attempt is started only in a step that reacts to the rejection of the
\* attempt before it; no two attempts are in flight together.
C3_AtMostThreeSequential ==
    /\ [](/\ Len(body) <= 3
          /\ \A el \in DOMAIN body : body[el].src = TAILWIND_URL
          /\ Cardinality(InFlight) <= 1)
    /\ [][Len(body') # Len(body) =>
             /\ Len(body') = Len(body) + 1
             /\ body[Len(body)].st = "failed"
             /\ prom[AttemptPromise(Len(body))] = [st |-> "rejected", val |-> "Rejected"]
             /\ jobs # <<>> /\ Head(jobs).k = "react"
             /\ prom[Head(jobs).src].st = "rejected"]_vars

\* the third attempt is in flight after two failures
C3_Witness ==
    /\ Len(body) = 3
    /\ body[1].st = "failed" /\ body[2].st = "failed" /\ body[3].st = "pending"

\* C4: once an attempt has loaded (its promise resolved), no further attempt
\* is started and no script element is appended any more.
C4_NoRetryAfterLoad ==
    [][(\E el \in DOMAIN body : body[el].st = "loaded") => body' = body]_vars

\* the second attempt loaded and the chain has run to its end with two elements
C4_Witness ==
    /\ Len(body) = 2 /\ body[2].st = "loaded"
    /\ prom["p"].st = "fulfilled" /\ jobs = <<>>

\* ---- weather(), under SpecWeather

\* call c comes to its end in this step
Completes(c) == c \in DOMAIN reqs /\ reqs[c].st # "done" /\ reqs'[c].st = "done"
Is2xx(status) == status \in 200..299
IsNon2xx(status) == status # 0 /\ status \notin 200..299
ErrorShown(d) == d.fetching = "flex" /\ d.cantainer = "none"
DataShown(d) == d.cantainer = "flex" /\ d.fetching = "none"

\* C5 as stated: a call that got a non-2xx response ends with the error
\* container visible and the data container hidden, and a call that got a 2xx
\* response ends with the data container visible and the error container hidden.
C5_Original ==
    [][\A c \in DOMAIN reqs : Completes(c) =>
          /\ IsNon2xx(reqs'[c].status) => ErrorShown(doc')
          /\ Is2xx(reqs'[c].status) => DataShown(doc')]_vars

\* C5 as amended: a call that got a non-2xx response ends with the error
\* container visible and the data container hidden; a call that got a 2xx
\* response whose body parses as JSON to a value other than null ends with the
\* data container visible and the error container hidden.
C5_VisibilityByStatus ==
    [][\A c \in DOMAIN reqs : Completes(c) =>
          /\ IsNon2xx(reqs'[c].status) => ErrorShown(doc')
          /\ (/\ Is2xx(reqs'[c].status)
              /\ reqs'[c].body.parsed
              /\ reqs'[c].body.value # Null) => DataShown(doc')]_vars

\* a 404 call has ended and then a 200 call with a JSON object: data is shown
C5_Witness ==
    /\ Len(reqs) = 2
    /\ reqs[1].st = "done" /\ reqs[1].status = 404
    /\ reqs[2].st = "done" /\ reqs[2].status = 200 /\ reqs[2].body.parsed
    /\ DataShown(doc)

\* C6: on a non-OK status the content of fetching becomes the string of the
\* thrown error, "Error: <input> Not Found :", and the nodes city, citytemp,
\* wind and des keep their content.
C6_ErrorTextDataKept ==
    [][\A c \in DOMAIN reqs : (Completes(c) /\ IsNon2xx(reqs'[c].status)) =>
          /\ doc'.fetchingHTML = "Error: " \o userinput \o " Not Found :"
          /\ doc'.city = doc.city /\ doc'.citytemp = doc.citytemp
          /\ doc'.wind = doc.wind /\ doc'.des = doc.des]_vars

\* an earlier call rendered its data, a later one got 404: both are in the page
C6_Witness ==
    /\ Len(reqs) = 2 /\ reqs[2].st = "done" /\ reqs[2].status = 404
    /\ doc.fetchingHTML = "Error: London Not Found :"
    /\ doc.citytemp = "+22 C" /\ doc.des = "Sunny"

\* C7: on success the fields temperature, wind and description of the response
\* object are written into citytemp, wind and des respectively: a string field
\* character for character, any other field as the string the DOM makes of it.
FieldWritten(content, field) ==
    /\ field.t = "string" => content = field.v
    /\ content = DOMString(field)

C7_FieldsWritten ==
    [][\A c \in DOMAIN reqs :
          (/\ Completes(c)
           /\ reqs'[c].body.parsed
           /\ reqs'[c].body.value # Null) =>
              /\ FieldWritten(doc'.citytemp, reqs'[c].body.value.temperature)
              /\ FieldWritten(doc'.wind, reqs'[c].body.value.wind)
              /\ FieldWritten(doc'.des, reqs'[c].body.value.description)]_vars

\* a response with markup in a field has been rendered as it came
C7_Witness ==
    /\ \E c \in DOMAIN reqs : reqs[c].st = "done" /\ reqs[c].body.parsed
    /\ doc.citytemp = "<b>-3 C</b>" /\ doc.wind = "undefined" /\ doc.des = ""
    /\ DataShown(doc)

\* ---- Student / CS_Student, under SpecStudent

\* C8: after cancel(), info() prints "Student not exits!" and nothing else,
\* for both classes and whatever was called before the cancel().
C8_InfoAfterCancel ==
    (cancelled /\ lastOp = "info") => out = << NOT_EXISTS >>

\* info() on a cancelled CS_Student that had been submitted
C8_Witness ==
    /\ cancelled /\ submitted /\ lastOp = "info"
    /\ student.cls = "CS_Student" /\ out = << NOT_EXISTS >>

TimestampFields == {"hours", "minutes", "seconds", "date"}

\* C9: the timestamp fields are unset as long as submit() has not been called
\* on the object and set once it has; only submit() writes them.
C9_TimestampOnlyBySubmit ==
    /\ [](\A f \in TimestampFields :
             IF submitted THEN student[f].t = "string" ELSE student[f] = Undefined)
    /\ [][lastOp' \notin {"submit", "new"} =>
             \A f \in TimestampFields : student'[f] = student[f]]_vars

\* a submitted and then cancelled object still carries its timestamp
C9_Witness ==
    /\ submitted /\ cancelled /\ lastOp = "cancel"
    /\ student.hours = Text(<<"0", "9">>) /\ student.date.t = "string"

\* C10: cancel() sets name and program to undefined and changes no other
\* field; submit() changes no field but hours, minutes, seconds and date.
C10_Frames ==
    [][/\ lastOp' = "cancel" =>
             /\ student'.name = Undefined /\ student'.program = Undefined
             /\ \A f \in DOMAIN student \ {"name", "program"} : student'[f] = student[f]
       /\ lastOp' = "submit" =>
             \A f \in DOMAIN student \ TimestampFields : student'[f] = student[f]]_vars

\* submit() has run on an object with roll number and name, all still there
C10_Witness ==
    /\ lastOp = "submit" /\ ~cancelled
    /\ student.rnumber = Number("30") /\ student.name.t = "string"
    /\ student.seconds = Text(<<"5", "9">>)


\* C11: CS_Student.info() on a student whose name is defined prints the two
\* lines of the base info() first (heading, then name, program and timestamp)
\* and the roll-number and NICE line after them; on a student whose name is
\* undefined it prints "Student not exits!" once and nothing of the base info().
C11_SubclassInfoOrder ==
    (lastOp = "info" /\ student.cls = "CS_Student") =>
        IF student.name = Undefined
        THEN out = << NOT_EXISTS >>
        ELSE /\ Len(out) = 3
             /\ out[1] = <<"\nStudent Informations:">>
             /\ SubSeq(out[2], 1, 1 + Len(student.name.v)) = <<"Name: ">> \o student.name.v
             /\ out[3] = <<"\nRoll Number: ">> \o FieldToString(student.rnumber)
                         \o <<"\nNICE: ">> \o FieldToString(student.nice)

\* info() on a submitted CS_Student with a name: three lines
C11_Witness ==
    /\ lastOp = "info" /\ student.cls = "CS_Student" /\ submitted /\ ~cancelled
    /\ student.name = Text(<<"A", "L", "I">>) /\ Len(out) = 3


\* ---- the clock, under SpecClock

\* C12: for every sampled hour h in 0..23 the rendered hour is ((h % 12) || 12)
\* padded with a zero to two digits, so one of 01..12, and the rendered period
\* is "AM" if and only if h < 12, "PM" otherwise.
C12_TwelveHourClock ==
    sample # NoSample =>
        LET h == sample.hours
            shown == IF h % 12 = 0 THEN 12 ELSE h % 12
        IN  /\ shown \in 1..12
            /\ time.h = padStart2(NumberToString(shown)) \o <<":">>
            /\ Len(time.h) = 3
            /\ time.ampm = <<" ", (IF h < 12 THEN "AM" ELSE "PM")>>

\* a tick at noon: rendered as 12 PM
C12_Witness ==
    /\ sample.hours = 12
    /\ time.h = <<"1", "2", ":">> /\ time.ampm = <<" ", "PM">>

\* C16: nothing disarms the interval timer, and after every tick the callback
\* runs again: ticks occur infinitely often.
C16_TicksForever ==
    /\ []timer
    /\ []<><<Tick>>_clockVars

\* the callback has run TickWrap times and the timer is still armed
C16_Witness ==
    /\ timer /\ ticks = 0 /\ sample # NoSample


\* ---- overlapping weather() calls, under SpecWeather

\* C13: no store is written by the completion handlers of two asynchronous
\* operations that are pending at the same time: when the handlers of a
\* weather() call write the document, no other weather() call is pending.
C13_NoConcurrentWriters ==
    [][\A c \in DOMAIN reqs : (Completes(c) /\ doc' # doc) =>
          \A c2 \in DOMAIN reqs \ {c} : reqs[c2].st = "done"]_vars

\* C18: whenever the data container is visible, the city label is the city of
\* the request whose response fields are shown, and once every call has ended
\* the data shown is that of the call started last.
C18_LabelMatchesData ==
    /\ (DataShown(doc) /\ shownCall # 0) => doc.city = reqs[shownCall].city
    /\ (DataShown(doc) /\ \A c \in DOMAIN reqs : reqs[c].st = "done") =>
          shownCall = Len(reqs)


\* ---- the callback script loader again, under SpecLoader

\* C14: no retry and no dedup: every call of func appends one new script
\* element with the src of the call, also when an element with that src is
\* there already; an event appends nothing; every element whose event has been
\* delivered has its own callback invocation.
C14_NoRetryNoDedup ==
    /\ [](/\ Len(head) = Len(funcCalls)
          /\ \A el \in DOMAIN head : head[el].src = funcCalls[el]
          /\ Len(loadCalls) = Cardinality({el \in DOMAIN head : head[el].st # "pending"}))
    /\ [][loadCalls' # loadCalls => Len(head') = Len(head)]_vars

\* two overlapping calls with the same URL: two elements, one loaded and one
\* failed, and a callback invocation for each
C14_Witness ==
    /\ Len(head) = 2 /\ head[1].src = head[2].src
    /\ head[1].st = "failed" /\ head[2].st = "loaded"
    /\ Len(loadCalls) = 2 /\ loadCalls[1].el = 2 /\ loadCalls[2].el = 1


\* ---- outcomes of the three asynchronous operations, under SpecPages

\* between two tasks: no microtask is waiting
BetweenTasks == jobs = <<>>

\* a call of the callback loader: nothing until its event, then one callback
\* invocation with one of two flags
CallbackTwoOutcomes ==
    \A el \in DOMAIN head :
        /\ head[el].st \in {"pending", "loaded", "failed"}
        /\ head[el].st = "pending" => LoadCallsOf(el) = {}
        /\ head[el].st # "pending" =>
              \E k \in DOMAIN loadCalls :
                  /\ LoadCallsOf(el) = {k}
                  /\ loadCalls[k].error = (head[el].st = "failed")

\* one attempt of the promise loader: its promise is pending until the event
\* of its element, then fulfilled or rejected
AttemptTwoOutcomes ==
    \A el \in DOMAIN body :
        prom[body[el].promise] =
            CASE body[el].st = "pending" -> Pending
              [] body[el].st = "loaded" -> [st |-> "fulfilled", val |-> "resolve"]
              [] OTHER -> [st |-> "rejected", val |-> "Rejected"]

\* a call of weather(): the document changes when a call starts and when a
\* call ends, to the data view or to the error view, and at no other time
WeatherTwoOutcomes ==
    /\ \A c \in DOMAIN reqs : Completes(c) => (DataShown(doc') \/ ErrorShown(doc'))
    /\ doc' # doc => (Len(reqs') > Len(reqs) \/ \E c \in DOMAIN reqs : Completes(c))

\* C15 as stated: each of the callback loader, the promise loader with its
\* chain p, and weather() has two outcomes and shows no intermediate state
\* between its start and its outcome: as long as p is pending, the page is as
\* the start of the chain left it.
C15_Original ==
    /\ [](/\ CallbackTwoOutcomes
          /\ AttemptTwoOutcomes
          /\ (prom["p"].st = "pending" /\ BetweenTasks) =>
                (Len(body) = 1 /\ body[1].st = "pending" /\ prConsole = <<>>))
    /\ [][WeatherTwoOutcomes]_vars

\* C15 as amended: each call of the callback loader, each attempt of the
\* promise loader and each call of weather() has two outcomes, success or
\* error, and shows no intermediate state between its start and its outcome.
C15_TwoOutcomesPerAttempt ==
    /\ [](CallbackTwoOutcomes /\ AttemptTwoOutcomes)
    /\ [][WeatherTwoOutcomes]_vars

\* the weather page with one call ended in the data view and one call whose
\* body is still being read
C15_Witness ==
    /\ Len(reqs) = 2 /\ reqs[1].st = "done" /\ reqs[2].st = "parsing"
    /\ DataShown(doc) /\ shownCall = 1


\* ---- WeatherCache, under SpecCache

\* the latest set(key, ..) was no more than CACHE_TTL before the last get
SetRecently(key) ==
    lastSet[key] # NoEntry /\ cacheOp.at - lastSet[key].timestamp <= CACHE_TTL

\* C19: get(key) returns the data of the latest set(key, ..) when that set is
\* no more than CACHE_TTL (15 minutes) ago, and null in every other case; an
\* expired entry that get comes upon is gone from the store afterwards.
C19_CacheTTL ==
    cacheOp.op = "get" =>
        /\ CACHE_TTL = 900000
        /\ cacheOp.value # Null => SetRecently(cacheOp.key)
        /\ SetRecently(cacheOp.key) => cacheOp.value = lastSet[cacheOp.key].data
        /\ ~SetRecently(cacheOp.key) =>
              (cacheOp.value = Null /\ store[cacheOp.key] = NoEntry)

\* get of an entry that is exactly CACHE_TTL old: still returned
C19_Witness ==
    /\ cacheOp.op = "get" /\ cacheOp.value # Null
    /\ cacheOp.at - lastSet[cacheOp.key].timestamp = CACHE_TTL


\* ---- fetchWithRetry, under SpecFetch

\* the attempts of a call so far: all failed, but for the one in flight or
\* the one that succeeded
AttemptsInOrder(f) ==
    /\ f.attempts >= 1 /\ f.attempts <= 4
    /\ f.st \in {"fetching", "reading"} => f.failed = f.attempts - 1
    /\ f.st = "backoff" => f.failed = f.attempts
    /\ f.outcome = "resolved" => f.failed = f.attempts - 1
    /\ f.outcome = "rejected" => f.failed = f.attempts /\ f.attempts = 4

\* a step makes a new attempt only for a call whose latest attempt has failed
AttemptAfterFailure(i) ==
    fetches'[i].attempts # fetches[i].attempts =>
        /\ fetches'[i].attempts = fetches[i].attempts + 1
        /\ fetches[i].st = "backoff" /\ fetches[i].outcome = "pending"

\* C20: a fetchWithRetry call ends once every fetch settles; its attempts come
\* one after another, each after the failure of the one before, at most
\* MAX_RETRIES + 1 = 4 of them, and none after an attempt that succeeded.
C20_RetryTerminates ==
    /\ [](MAX_RETRIES + 1 = 4 /\ \A i \in DOMAIN fetches : AttemptsInOrder(fetches[i]))
    /\ [][\A i \in DOMAIN fetches : AttemptAfterFailure(i)]_fetchVars
    /\ [][\A i \in DOMAIN fetches :
            fetches[i].st = "done" => fetches'[i] = fetches[i]]_fetchVars
    /\ \A i \in 1..MaxFetch :
          (i \in DOMAIN fetches) ~> (i \in DOMAIN fetches /\ fetches[i].st = "done")

\* a call that resolved with its fourth attempt, beside one that was rejected
C20_Witness ==
    /\ \E i \in DOMAIN fetches : fetches[i].outcome = "resolved" /\ fetches[i].attempts = 4
    /\ \E i \in DOMAIN fetches : fetches[i].outcome = "rejected"


\* ---- WeatherWidget, under SpecWidget

\* this step ends an updateWeather call whose getWeatherByCity resolved
ResolvedEnd ==
    \/ \E c \in BagToSet(calls), json \in ApiBodies : json.parsed /\ ApiJson(c, json)
    \/ \E input \in SearchInputs : Search(input) /\ calls' = calls

\* C17: when getWeatherByCity resolves, updateWeather ends with the widget
\* showing the weather fields and no error message, on the first call and on
\* every later one.
C17_ShowsWeather ==
    [][ResolvedEnd => weatherDisplay'.kind = "current-weather"]_vars


\* ---- getWeatherByCity, under SpecWidget

\* the error a failed fetch attempt throws in fetchWithRetry
AttemptError(response) ==
    IF response.kind = "failure" THEN [name |-> "TypeError", message |-> "Failed to fetch"]
    ELSE [name |-> "Error", message |-> "HTTP " \o ToString(response.status)]
JsonError == [name |-> "SyntaxError", message |-> "Unexpected end of JSON input"]

\* this step ends call c rejected with error e: updateWeather shows its
\* message, and the cache is as before
RejectsWith(c, e) ==
    /\ lastDone' = [key |-> c.key, outcome |-> "rejected", value |-> e,
                    promise |-> "fulfilled"]
    /\ weatherDisplay' = [kind |-> "error", message |-> e.message]
    /\ store' = store /\ lastSet' = lastSet
    /\ calls' = calls (-) SetToBag({c})

\* C21: when the last attempt of fetchWithRetry fails too, getWeatherByCity
\* rejects with the error of that attempt and leaves the cache store as it
\* was; it rejects in no other case.
C21_ErrorPath ==
    /\ [][\A c \in BagToSet(calls) : c.f.retries = 0 =>
            /\ \A response \in ApiResponses :
                  (~(response.kind = "response" /\ Is2xx(response.status))
                      /\ ApiSettles(c, response)) => RejectsWith(c, AttemptError(response))
            /\ \A json \in ApiBodies :
                  (~json.parsed /\ ApiJson(c, json)) => RejectsWith(c, JsonError)]_vars
    /\ [][(lastDone'.outcome = "rejected" /\ lastDone' # lastDone) =>
            \E c \in BagToSet(calls) :
                c.f.retries = 0 /\ c.f.attempts = 4 /\ c.f.failed = 3]_vars

\* a call ended rejected with the HTTP error of its fourth attempt and the
\* key has no entry
C21_Witness ==
    /\ lastDone.outcome = "rejected" /\ lastDone.value.message = "HTTP 503"
    /\ weatherDisplay = [kind |-> "error", message |-> "HTTP 503"]
    /\ store[lastDone.key] = NoEntry


\* the lower-cased key of a city, without country code
LowerKey(city) == <<"city_">> \o toLowerCase(city) \o <<"_">>

\* a call whose key lower-cases to that of city has resolved, and no more than
\* CACHE_TTL ago
ResolvedRecently(k, city) ==
    /\ toLowerCase(k) = LowerKey(city)
    /\ lastSet[k] # NoEntry
    /\ dateNow - lastSet[k].timestamp <= CACHE_TTL

\* C22: once a getWeatherByCity call for a key has resolved, a later call for
\* the same lower-cased key within CACHE_TTL returns the cached WeatherData
\* and starts no fetch.
C22_CacheHit ==
    [][\A input \in SearchInputs : Search(input) =>
          \A k \in DOMAIN lastSet : ResolvedRecently(k, trim(input)) =>
              /\ calls' = calls
              /\ lastDone' = [key |-> LowerKey(trim(input)), outcome |-> "hit",
                              value |-> lastSet[k].data, promise |-> "fulfilled"]]_vars

\* a call answered from an entry that was exactly CACHE_TTL old
C22_Witness ==
    /\ lastDone.outcome = "hit"
    /\ lastDone.value = lastSet[lastDone.key].data
    /\ dateNow - lastSet[lastDone.key].timestamp = CACHE_TTL
    /\ calls = EmptyBag


\* the cache has nothing to return for key now
CacheMiss(key) ==
    store[key] = NoEntry \/ dateNow - store[key].timestamp > CACHE_TTL

\* the call a search for city starts
FirstFetch(city) ==
    \E c \in BagToSet(calls') :
        /\ c.city = city /\ c.key = LowerKey(city)
        /\ c.f.st = "fetching" /\ c.f.attempts = 1
        /\ CopiesIn(c, calls') = CopiesIn(c, calls) + 1

\* C23: calls in flight are not coordinated. A getWeatherByCity call that finds
\* nothing in the cache starts its own fetch, also while another call for the
\* same key is in flight; and every call that resolves overwrites the entry of
\* its key, so the cache holds the data of the call that resolved last.
C23_NoCoordination ==
    /\ [][\A input \in SearchInputs :
            (Search(input) /\ CacheMiss(LowerKey(trim(input)))) =>
                /\ FirstFetch(trim(input))
                /\ BagCardinality(calls') = BagCardinality(calls) + 1]_vars
    /\ [][\A c \in BagToSet(calls), json \in ApiBodies :
            (json.parsed /\ ApiJson(c, json)) =>
                /\ lastDone'.outcome = "resolved" /\ lastDone'.key = c.key
                /\ store'[c.key] = [timestamp |-> dateNow, data |-> lastDone'.value]]_vars

\* two calls for one key in flight, each with a fetch of its own
C23_Witness ==
    \E c \in BagToSet(calls), d \in BagToSet(calls) :
        /\ c.key = d.key /\ c.city # d.city
        /\ c.f.st = "fetching" /\ d.f.st = "reading"


\* ---- WeatherApplication.refreshAllWidgets, under SpecWidget

\* this step is an updateWeather call for city: it is answered from the cache
\* under the key of city, or a call for city is in flight afterwards
Updates(city) ==
    /\ weatherDisplay' # initUI
    /\ \/ calls' = calls /\ lastDone'.outcome = "hit" /\ lastDone'.key = LowerKey(city)
       \/ \E c \in BagToSet(calls') :
             /\ c.city = city /\ c.f.st = "fetching" /\ c.f.attempts = 1
             /\ calls' = calls (+) SetToBag({c})

\* C28: nothing assigns widget.lastCity, so refreshAllWidgets always calls
\* updateWeather('London'); and the promise of every updateWeather call is
\* fulfilled, whatever getWeatherByCity came to, so that Promise.all never
\* rejects.
C28_RefreshLondon ==
    /\ [](lastCity = [t |-> "undefined"])
    /\ [][refreshAllWidgets => Updates(<<"L", "o", "n", "d", "o", "n">>)]_vars
    /\ [](lastDone.outcome # "none" => lastDone.promise = "fulfilled")

\* a call has ended rejected, its promise fulfilled, and a call for London is
\* in flight
C28_Witness ==
    /\ lastDone.outcome = "rejected" /\ lastDone.promise = "fulfilled"
    /\ \E c \in BagToSet(calls) : c.city = <<"L", "o", "n", "d", "o", "n">>
    /\ lastCity = [t |-> "undefined"]


\* ---- the promise script loader chain once more, under SpecLoader

\* the script elements of the chain by outcome, and the lines logged
LoadedAttempts == {el \in DOMAIN body : body[el].st = "loaded"}
FailedAttempts == {el \in DOMAIN body : body[el].st = "failed"}
ResolveLines ==
    {k \in DOMAIN prConsole : prConsole[k] = <<"this is value of resolve which is  ", "resolve">>}
ErrorLines ==
    {k \in DOMAIN prConsole : prConsole[k] = <<"this is value of error which is  ", "Rejected">>}

\* C24: p is fulfilled exactly when an attempt loaded, and rejected with
\* "Rejected", no handler attached, exactly when all three attempts failed; a
\* resolve line is logged only for a first or second attempt that loaded, and
\* an error line for the first and for the second failure, none for the third.
C24_ChainOutcome ==
    /\ Len(body) <= 3
    /\ prom["p"].st = "fulfilled" => LoadedAttempts # {}
    /\ prom["p"].st = "rejected" =>
          /\ FailedAttempts = {1, 2, 3}
          /\ prom["p"].val = "Rejected"
          /\ "p" \notin registered
    /\ jobs = <<>> =>
          /\ LoadedAttempts # {} => prom["p"].st = "fulfilled"
          /\ FailedAttempts = {1, 2, 3} => prom["p"].st = "rejected"
          /\ Cardinality(ResolveLines) = IF LoadedAttempts \cap {1, 2} # {} THEN 1 ELSE 0
          /\ Cardinality(ErrorLines) = Cardinality(FailedAttempts \cap {1, 2})
          /\ Len(prConsole) = Cardinality(ResolveLines) + Cardinality(ErrorLines)

\* all three attempts failed: p is rejected and two error lines are logged
C24_Witness ==
    /\ jobs = <<>>
    /\ FailedAttempts = {1, 2, 3}
    /\ prom["p"] = [st |-> "rejected", val |-> "Rejected"]
    /\ Len(prConsole) = 2


\* ---- weather() once more, under SpecWeather

\* C25: once weather() has been called, between tasks exactly one of the
\* elements fetching and cantainer is visible: one has display flex and the
\* other none, however many calls overlap and in whatever order they settle.
C25_OneVisible ==
    Len(reqs) >= 1 =>
        \/ doc.fetching = "flex" /\ doc.cantainer = "none"
        \/ doc.fetching = "none" /\ doc.cantainer = "flex"

\* the second call ended on a null body, which put the error back, while the
\* first is still fetching
C25_Witness ==
    /\ Len(reqs) = 2
    /\ reqs[2].st = "done" /\ reqs[2].body = [parsed |-> TRUE, value |-> Null]
    /\ reqs[1].st = "fetching"
    /\ doc.fetching = "flex" /\ doc.cantainer = "none"


\* ---- Student / CS_Student once more, under SpecStudent

\* C26: cancellation is absorbing. Once cancel() has been called on an object
\* its name stays undefined through every later submit(), add(), cancel() and
\* info(), and each later info() prints "Student not exits!" only.
C26_CancelAbsorbing ==
    /\ [](cancelled => student.name = [t |-> "undefined"])
    /\ [][(cancelled /\ lastOp' # "new") =>
             /\ cancelled'
             /\ student'.name = [t |-> "undefined"]
             /\ lastOp' = "info" => out' = << <<"Student not exits!">> >>]_vars

\* add() was called on a cancelled CS_Student: the name is still undefined
C26_Witness ==
    /\ cancelled /\ lastOp = "add"
    /\ student.cls = "CS_Student" /\ student.name = [t |-> "undefined"]


\* C30: each call of weather() starts exactly one fetch, for the URL made of
\* the input value at the time of the call, and no later step of the call
\* starts another one, whether the response was not ok, the fetch failed or
\* the body did not parse.
C30_SingleFetch ==
    /\ [][weather =>
            /\ Len(reqs') = Len(reqs) + 1
            /\ reqs'[Len(reqs')].url = "https://goweather.xyz/weather/" \o userinput
            /\ reqs'[Len(reqs')].st = "fetching"]_vars
    /\ [][~weather => Len(reqs') = Len(reqs)]_vars
    /\ [][\A c \in DOMAIN reqs : c \in DOMAIN reqs' /\ reqs'[c].url = reqs[c].url]_vars

\* one call for London has ended on a network failure, the input has changed
\* since, and there is still the one fetch
C30_Witness ==
    /\ Len(reqs) = 1
    /\ reqs[1].st = "done" /\ reqs[1].status = 0
    /\ reqs[1].url = "https://goweather.xyz/weather/London"
    /\ userinput = "<i>Oslo</i>"


\* ---- throttle, under SpecThrottle

\* C27: the first call of the wrapper invokes fn; a call less than delay after
\* the last accepted one invokes nothing, returns undefined and leaves lastCall
\* as it is; any other call invokes fn with its arguments, returns its value
\* and sets lastCall; so two successive invocations of fn are at least delay
\* apart.
C27_Throttle ==
    /\ [][\A args \in ThrottleArgs : ThrottledCall(args) =>
            IF getTime - lastCall < throttleDelay
            THEN /\ fnCalls' = fnCalls
                 /\ returned' = [t |-> "undefined"]
                 /\ lastCall' = lastCall
            ELSE /\ fnCalls' = Append(fnCalls, [at |-> getTime, args |-> args])
                 /\ returned' = [t |-> "fn", args |-> args]
                 /\ lastCall' = getTime]_vars
    /\ [][\A args \in ThrottleArgs : (ThrottledCall(args) /\ fnCalls = <<>>) =>
            Len(fnCalls') = 1]_vars
    /\ [](\A k \in 1..(Len(fnCalls) - 1) : fnCalls[k + 1].at - fnCalls[k].at >= throttleDelay)
    /\ [](fnCalls # <<>> => lastCall = fnCalls[Len(fnCalls)].at)

\* two invocations exactly delay apart, then a call one millisecond before the
\* window ends: nothing invoked, undefined returned
C27_Witness ==
    /\ Len(fnCalls) = 2
    /\ fnCalls[2].at - fnCalls[1].at = throttleDelay
    /\ getTime - lastCall = throttleDelay - 1
    /\ returned = [t |-> "undefined"]


\* ---- the Promise.all demo, under SpecDemo

\* the four lines of the demo in the order claimed
ExpectedDemoLog ==
    << [t |-> "string", v |-> "Value of VP1", items |-> <<>>],
       [t |-> "string", v |-> "value of P2", items |-> <<>>],
       [t |-> "string", v |-> "Value of P3", items |-> <<>>],
       [t |-> "array", v |-> "",
        items |-> [k \in {1, 2, 3} |->
                     CASE k = 1 -> "Value of VP1" [] k = 2 -> "value of P2" [] OTHER -> "Value of P3"]] >>

DemoFulfilled == {k \in {1, 2, 3} : demoProm[k].st = "fulfilled"}

\* C29: p1, p2, p3 resolve in that order; the value of each is logged when it
\* resolves; the result of Promise.all is logged once, after the three values,
\* and is the array of the three values in the order p1, p2, p3.
C29_PromiseAll ==
    /\ [](\A k \in {2, 3} : k \in DemoFulfilled => (k - 1) \in DemoFulfilled)
    /\ [](/\ Len(demoConsole) <= 4
          /\ demoConsole = SubSeq(ExpectedDemoLog, 1, Len(demoConsole)))
    /\ [](demoJobs = <<>> =>
            Len(demoConsole) = Cardinality(DemoFulfilled)
                               + (IF DemoFulfilled = {1, 2, 3} THEN 1 ELSE 0))
    /\ <>(Len(demoConsole) = 4)

\* the demo has run to its end beside a call of weather()
C29_Witness ==
    /\ Len(demoConsole) = 4
    /\ demoConsole[4].items = <<"Value of VP1", "value of P2", "Value of P3">>
    /\ all.st = "fulfilled" /\ demoTimers = {}
    /\ Len(reqs) = 1

\* ---- the stateless tick, under SpecClock

\* C31: what a tick renders (hour, minute, second, period) is a function of the
\* time sampled in that tick only, whatever the nodes showed and however many
\* ticks ran before, so two ticks sampling the same time render the same
\* output; and no tick changes the global counter i.
C31_StatelessTick ==
    [][/\ time' = render(sample')
       /\ counterI' = counterI]_clockVars

\* a later tick samples midnight after earlier ticks: 12:09:05 AM, i still 0
C31_Witness ==
    /\ ticks = 2 /\ counterI = 0
    /\ sample = [hours |-> 0, minutes |-> 9, seconds |-> 5]
    /\ time = [h |-> <<"1", "2", ":">>, m |-> <<"0", "9", ":">>,
               s |-> <<"0", "5", "  ">>, ampm |-> <<" ", "AM">>]

====
